---------------------------- MODULE Spec2Model ----------------------------
(***************************************************************************)
(* A model of cyk_parser.py: the Grammar container (add_rule), the five    *)
(* normalization passes run by CYKParser.__init__, and the CYK recognizer  *)
(* with its derivation reconstruction.                                     *)
(*                                                                         *)
(* A text is a sequence of one-character strings.  A symbol is a record    *)
(* [cat, value] with cat "N" (Nonterminal) or "T" (Terminal) and value a   *)
(* text.  A rule is [lhs, rhs, num]: lhs the value of its left-hand        *)
(* nonterminal, rhs a sequence of symbols, num its rule_number (0 stands   *)
(* for None).  A grammar is [rules, next]: the set self.rules and the      *)
(* counter self._next_rule_number.                                         *)
(***************************************************************************)
EXTENDS Integers, Sequences, FiniteSets, TLC

(***************************************************************************)
(* Bounds of the model.                                                    *)
(***************************************************************************)
MaxWordLen == 3
MaxPosition == 2
MaxRules == 3
MaxParses == 2

(***************************************************************************)
(* Characters.  str.isupper(), str.isdigit() and whitespace on the         *)
(* characters the model's texts are made of.                               *)
(***************************************************************************)
UpperChars == {"S", "A", "B", "C", "X"}
DigitChars == {"0", "1", "2", "3", "4", "5", "6", "7", "8", "9"}
SpaceChars == {" "}
AllChars == <<" ", "'", "-", ">", "0", "1", "2", "3", "4", "5", "6", "7",
              "8", "9", "A", "B", "C", "S", "X", "a", "b", "e", "p", "s",
              "ε">>

isupper(c) == c \in UpperChars
isdigit(c) == c \in DigitChars
isspace(c) == c \in SpaceChars

(***************************************************************************)
(* What a call raises: None, or the exception with its message.            *)
(***************************************************************************)
NoError == "None"
ErrFormat == "ValueError: Invalid rule format"
ErrUpper == "ValueError: Nonterminal must start with uppercase letter"
ErrLong == "ValueError: Nonterminal can't be longer than 3 characters"
ErrPosition == "ValueError: Rule position must be 1 or greater"
ErrIndex == "IndexError: string index out of range"
ErrSlice == "TypeError: 'set' object is not subscriptable"

(***************************************************************************)
(* Symbols.                                                                *)
(***************************************************************************)
MaxNameLen == 3

Terminal(c) == [cat |-> "T", value |-> <<c>>]
Nonterminal(v) == [cat |-> "N", value |-> v]

\* What Nonterminal.__init__ raises on value v.
NonterminalErr(v) ==
    IF v = <<>> THEN ErrIndex
    ELSE IF ~isupper(v[1]) THEN ErrUpper
    ELSE IF Len(v) > MaxNameLen THEN ErrLong
    ELSE NoError

RECURSIVE Values(_)
Values(rhs) == IF rhs = <<>> THEN <<>> ELSE <<rhs[1].value>> \o Values(Tail(rhs))

\* GrammarRule.__eq__ / __hash__: lhs and rhs, never the number.  Symbols are
\* compared by Symbol.__eq__: by value, whatever the class.
RuleKey(r) == <<r.lhs, Values(r.rhs)>>
RuleEq(r, q) == RuleKey(r) = RuleKey(q)

(***************************************************************************)
(* Text operations of add_rule.                                            *)
(***************************************************************************)
RECURSIVE FindArrow(_, _)
\* The index of the first "->" of s at or after i, 0 when there is none.
FindArrow(s, i) ==
    IF i + 1 > Len(s) THEN 0
    ELSE IF s[i] = "-" /\ s[i + 1] = ">" THEN i
    ELSE FindArrow(s, i + 1)

RECURSIVE split(_)
\* rule_str.split("->")
split(s) ==
    LET k == FindArrow(s, 1)
    IN  IF k = 0 THEN <<s>>
        ELSE <<SubSeq(s, 1, k - 1)>> \o split(SubSeq(s, k + 2, Len(s)))

RECURSIVE lstrip(_)
lstrip(s) == IF s # <<>> /\ isspace(s[1]) THEN lstrip(Tail(s)) ELSE s

RECURSIVE rstrip(_)
rstrip(s) ==
    IF s # <<>> /\ isspace(s[Len(s)]) THEN rstrip(SubSeq(s, 1, Len(s) - 1)) ELSE s

strip(s) == rstrip(lstrip(s))

\* rhs_str.replace(" ", "")
RemoveSpaces(s) == SelectSeq(s, LAMBDA c : c # " ")

\* The right-hand sides that denote epsilon (line 67).
IsEpsilonText(s) ==
    \/ s = <<>>
    \/ \A i \in 1..Len(s) : isspace(s[i])
    \/ s = <<"e", "p", "s">>
    \/ s = <<"ε">>

RECURSIVE ScanRhs(_, _, _)
\* The while loop of add_rule over the space-free right-hand side s, at
\* index i with the symbols rhs read so far: [err, rhs].
ScanRhs(s, i, rhs) ==
    IF i > Len(s) THEN [err |-> NoError, rhs |-> rhs]
    ELSE IF isupper(s[i]) THEN
        LET absorb == i + 1 <= Len(s) /\ (isdigit(s[i + 1]) \/ s[i + 1] = "'")
            nt == IF absorb THEN <<s[i], s[i + 1]>> ELSE <<s[i]>>
        IN  IF NonterminalErr(nt) # NoError
            THEN [err |-> NonterminalErr(nt), rhs |-> rhs]
            ELSE ScanRhs(s, IF absorb THEN i + 2 ELSE i + 1,
                         Append(rhs, Nonterminal(nt)))
    ELSE IF s[i] = "'" /\ rhs # <<>> /\ rhs[Len(rhs)].cat = "N" THEN
        LET v == rhs[Len(rhs)].value \o <<"'">>
        IN  IF NonterminalErr(v) # NoError
            THEN [err |-> NonterminalErr(v), rhs |-> rhs]
            ELSE ScanRhs(s, i + 1, [rhs EXCEPT ![Len(rhs)] = Nonterminal(v)])
    ELSE ScanRhs(s, i + 1, Append(rhs, Terminal(s[i])))

\* A call of add_rule that raised e before it had a rule.
Failed(e) == [err |-> e, lhs |-> <<>>, rhs |-> <<>>]

\* Line 98, reached with the result r of the loop over the right-hand side.
DecodedRhs(lhs_str, r) ==
    IF r.err # NoError THEN Failed(r.err)
    ELSE [err |-> NoError, lhs |-> lhs_str, rhs |-> r.rhs]

\* Lines 64-96 on the two stripped parts.
DecodeSides(lhs_str, rhs_str) ==
    IF NonterminalErr(lhs_str) # NoError THEN Failed(NonterminalErr(lhs_str))
    ELSE IF IsEpsilonText(rhs_str)
    THEN [err |-> NoError, lhs |-> lhs_str, rhs |-> <<>>]
    ELSE DecodedRhs(lhs_str, ScanRhs(RemoveSpaces(rhs_str), 1, <<>>))

\* Lines 58-62 on the parts of the split.
DecodeParts(parts) ==
    IF Len(parts) # 2 THEN Failed(ErrFormat)
    ELSE DecodeSides(strip(parts[1]), strip(parts[2]))

\* Lines 57-98 of add_rule: the text decoded to [err, lhs, rhs].
Decode(text) == DecodeParts(split(text))

(***************************************************************************)
(* The Grammar container.                                                  *)
(***************************************************************************)
EmptyGrammar == [rules |-> {}, next |-> 1]

\* A membership test that never finds the rule.
NeverHasRule(g, lhs, rhs) == FALSE

\* new_rule in self.rules
HasRule(g, lhs, rhs) ==
    \E r \in g.rules : RuleKey(r) = <<lhs, Values(rhs)>>

\* position=None, and position=p
NoPosition == <<>>
At(p) == <<p>>

\* The grammar g with the new rule of d under the next rule number.
Appended(g, d) ==
    [rules |-> g.rules \cup {[lhs |-> d.lhs, rhs |-> d.rhs, num |-> g.next]},
     next |-> g.next + 1]

\* Lines 98-116 with the grammar changed before the position is validated.
AddDecodedEager(g, d, position) ==
    IF d.err # NoError THEN [g |-> g, err |-> d.err]
    ELSE IF HasRule(g, d.lhs, d.rhs) THEN [g |-> g, err |-> NoError]
    ELSE IF position = NoPosition THEN [g |-> Appended(g, d), err |-> NoError]
    ELSE IF position[1] < 1 THEN [g |-> Appended(g, d), err |-> ErrPosition]
    ELSE [g |-> Appended(g, d), err |-> ErrSlice]

\* Lines 98-116 of add_rule on the decoded text d: [g, err], the grammar
\* after the call and what the call raised.  With a position >= 1 and a new
\* rule the call reaches self.rules[insert_index:], a slice of a set, which
\* raises before anything is changed.
AddDecoded(g, d, position) ==
    IF d.err # NoError THEN [g |-> g, err |-> d.err]
    ELSE IF HasRule(g, d.lhs, d.rhs) THEN [g |-> g, err |-> NoError]
    ELSE IF position = NoPosition THEN [g |-> Appended(g, d), err |-> NoError]
    ELSE IF position[1] < 1 THEN [g |-> g, err |-> ErrPosition]
    ELSE [g |-> g, err |-> ErrSlice]

\* Grammar.add_rule(rule_str, position)
add_rule(g, text, position) == AddDecoded(g, Decode(text), position)

(***************************************************************************)
(* Iteration order of a Python set.  It follows the hashes of the members, *)
(* which are fixed for one process and differ from process to process      *)
(* (string hashing is seeded).  The model fixes, per process, one order    *)
(* for sets of GrammarRule (h.rule) and one for sets keyed by a            *)
(* Nonterminal (h.sym): ascending or descending in the character codes.    *)
(***************************************************************************)
HashSeeds == [rule : BOOLEAN, sym : BOOLEAN]

CharCode(c) == CHOOSE i \in 1..Len(AllChars) : AllChars[i] = c

RECURSIVE Codes(_)
Codes(v) == IF v = <<>> THEN <<>> ELSE <<CharCode(v[1])>> \o Codes(Tail(v))

RECURSIVE CodesOfRhs(_)
CodesOfRhs(rhs) ==
    IF rhs = <<>> THEN <<>>
    ELSE Codes(rhs[1].value) \o <<0>> \o CodesOfRhs(Tail(rhs))

CodesOfRule(r) == Codes(r.lhs) \o <<0>> \o CodesOfRhs(r.rhs)

RECURSIVE LexLess(_, _)
LexLess(a, b) ==
    IF b = <<>> THEN FALSE
    ELSE IF a = <<>> THEN TRUE
    ELSE IF a[1] # b[1] THEN a[1] < b[1]
    ELSE LexLess(Tail(a), Tail(b))

RECURSIVE SortKeyed(_, _)
\* The members v of a set P of [k, v], by key k, ascending or descending.
SortKeyed(P, desc) ==
    IF P = {} THEN <<>>
    ELSE LET m == CHOOSE x \in P : \A y \in P :
                      y = x \/ (IF desc THEN LexLess(y.k, x.k) ELSE LexLess(x.k, y.k))
         IN  <<m.v>> \o SortKeyed(P \ {m}, desc)

\* for rule in grammar.rules
RuleSetOrder(rules, h) ==
    SortKeyed({[k |-> CodesOfRule(r), v |-> r] : r \in rules}, h.rule)

\* for b in <a set of Nonterminal>
SymSetOrder(values, h) ==
    SortKeyed({[k |-> Codes(v), v |-> v] : v \in values}, h.sym)

\* The sort key "x.rule_number if x.rule_number else float('inf')".
NumLess(r, q) == r.num # 0 /\ (q.num = 0 \/ r.num < q.num)

RECURSIVE StableSort(_)
\* sorted(list, key=...): stable, so ties keep the order of the list.
StableSort(s) ==
    IF s = <<>> THEN <<>>
    ELSE LET i == CHOOSE i \in 1..Len(s) :
                      /\ \A j \in 1..Len(s) : ~NumLess(s[j], s[i])
                      /\ \A j \in 1..(i - 1) : NumLess(s[i], s[j])
         IN  <<s[i]>> \o StableSort(SubSeq(s, 1, i - 1) \o SubSeq(s, i + 1, Len(s)))

\* Grammar.get_rules_list(), which is also "for rule in grammar".
get_rules_list(g, h) == StableSort(RuleSetOrder(g.rules, h))

(***************************************************************************)
(* Rendering a rule to text, as the passes do before add_rule.             *)
(***************************************************************************)
RECURSIVE Join(_)
\* ''.join(symbol.value for symbol in rhs)
Join(rhs) == IF rhs = <<>> THEN <<>> ELSE rhs[1].value \o Join(Tail(rhs))

\* f"{lhs} -> {rhs}" and f"{lhs}->{rhs}"
Spaced(lhs, rhs) == lhs \o <<" ", "-", ">", " ">> \o Join(rhs)
Tight(lhs, rhs) == lhs \o <<"-", ">">> \o Join(rhs)

RECURSIVE AddAll(_, _)
\* new_grammar.add_rule(text) for each text in turn; the first call that
\* raises ends the pass.
AddAll(acc, texts) ==
    IF texts = <<>> \/ acc.err # NoError THEN acc
    ELSE AddAll(add_rule(acc.g, texts[1], NoPosition), Tail(texts))

NewGrammar == [g |-> EmptyGrammar, err |-> NoError]

(***************************************************************************)
(* Pass 1: remove_nonproductive.                                           *)
(***************************************************************************)
\* Every nonterminal of rhs is in the set nts of nonterminal values.
AllIn(rhs, nts) ==
    \A i \in 1..Len(rhs) : rhs[i].cat = "N" => rhs[i].value \in nts

RECURSIVE ProductiveLoop(_, _, _, _)
\* One "for rule in grammar" of find_productive_nonterminals.
ProductiveLoop(list, i, productive, changed) ==
    IF i > Len(list) THEN [productive |-> productive, changed |-> changed]
    ELSE IF list[i].lhs \in productive
    THEN ProductiveLoop(list, i + 1, productive, changed)
    ELSE IF AllIn(list[i].rhs, productive)
    THEN ProductiveLoop(list, i + 1, productive \cup {list[i].lhs}, TRUE)
    ELSE ProductiveLoop(list, i + 1, productive, changed)

RECURSIVE ProductiveWhile(_, _)
\* "while changed", entered with the result r of a for loop.
ProductiveWhile(list, r) ==
    IF r.changed
    THEN ProductiveWhile(list, ProductiveLoop(list, 1, r.productive, FALSE))
    ELSE r.productive

find_productive_nonterminals(list) ==
    ProductiveWhile(list, [productive |-> {}, changed |-> TRUE])

\* f"{lhs} -> {rhs}" of each rule of a list
RenderSpaced(kept) == [i \in 1..Len(kept) |-> Spaced(kept[i].lhs, kept[i].rhs)]

\* Lines 164-182 with the productive set.
KeepProductive(list, productive_nts) ==
    AddAll(NewGrammar,
           RenderSpaced(SelectSeq(list, LAMBDA r :
               r.lhs \in productive_nts /\ AllIn(r.rhs, productive_nts))))

ProductiveOf(list) == KeepProductive(list, find_productive_nonterminals(list))

remove_nonproductive(g, h) == ProductiveOf(get_rules_list(g, h))

(***************************************************************************)
(* Pass 2: remove_unreachable.                                             *)
(***************************************************************************)
NonterminalsOf(rhs) == {rhs[i].value : i \in {j \in 1..Len(rhs) : rhs[j].cat = "N"}}

RECURSIVE ReachableLoop(_, _, _)
\* One "for rule in grammar" of remove_unreachable.
ReachableLoop(list, i, reachable) ==
    IF i > Len(list) THEN reachable
    ELSE IF list[i].lhs \in reachable
    THEN ReachableLoop(list, i + 1, reachable \cup NonterminalsOf(list[i].rhs))
    ELSE ReachableLoop(list, i + 1, reachable)

RECURSIVE ReachableWhile(_, _, _)
\* "while old_size != new_size", with the set before and after a for loop.
ReachableWhile(list, old, new) ==
    IF Cardinality(old) # Cardinality(new)
    THEN ReachableWhile(list, new, ReachableLoop(list, 1, new))
    ELSE new

\* f"{lhs}->{rhs}" of each rule of a list
RenderTight(kept) == [i \in 1..Len(kept) |-> Tight(kept[i].lhs, kept[i].rhs)]

\* Lines 206-214 with the reachable set.
KeepReachable(list, reachable) ==
    AddAll(NewGrammar, RenderTight(SelectSeq(list, LAMBDA r : r.lhs \in reachable)))

ReachableOf(list, start_symbol) ==
    KeepReachable(list, ReachableWhile(list, {}, {start_symbol}))

remove_unreachable(g, start_symbol, h) ==
    ReachableOf(get_rules_list(g, h), start_symbol)

(***************************************************************************)
(* Pass 3: remove_epsilon_rules.                                           *)
(***************************************************************************)
\* "symbol in eps_producers": membership by value.
AllNullable(rhs, eps) == \A i \in 1..Len(rhs) : rhs[i].value \in eps

RECURSIVE EpsLoop(_, _, _, _)
EpsLoop(list, i, eps, changed) ==
    IF i > Len(list) THEN [eps |-> eps, changed |-> changed]
    ELSE IF /\ list[i].lhs \notin eps
            /\ list[i].rhs # <<>>
            /\ AllNullable(list[i].rhs, eps)
    THEN EpsLoop(list, i + 1, eps \cup {list[i].lhs}, TRUE)
    ELSE EpsLoop(list, i + 1, eps, changed)

RECURSIVE EpsWhile(_, _)
\* "while changed", entered with the result r of a for loop.
EpsWhile(list, r) ==
    IF r.changed THEN EpsWhile(list, EpsLoop(list, 1, r.eps, FALSE)) ELSE r.eps

\* The nullable nonterminals of the rules in list (lines 218-233).
eps_producers(list) ==
    EpsWhile(list,
             [eps |-> {list[i].lhs : i \in {j \in 1..Len(list) : list[j].rhs = <<>>}},
              changed |-> TRUE])

\* The positions of rhs that hold a member of eps, in increasing order.
RECURSIVE EpsPositions(_, _, _)
EpsPositions(rhs, i, eps) ==
    IF i > Len(rhs) THEN <<>>
    ELSE IF rhs[i].value \in eps THEN <<i>> \o EpsPositions(rhs, i + 1, eps)
    ELSE EpsPositions(rhs, i + 1, eps)

RECURSIVE Pow2(_)
Pow2(n) == IF n = 0 THEN 1 ELSE 2 * Pow2(n - 1)

\* mask & (1 << i), as a truth value
BitSet(mask, i) == (mask \div Pow2(i)) % 2 = 1

\* The positions of rhs a mask skips: the nullable positions whose bit is clear.
SkipPositions(positions, mask) ==
    {positions[i + 1] : i \in {j \in 0..(Len(positions) - 1) : ~BitSet(mask, j)}}

\* The symbols of rhs at the positions not in skip, in order.
Without(rhs, skip) ==
    LET idx == SelectSeq([i \in 1..Len(rhs) |-> i], LAMBDA i : i \notin skip)
    IN  [i \in 1..Len(idx) |-> rhs[idx[i]]]

\* "if new_rhs:" then add_rule
TextUnlessEmpty(lhs, new_rhs) ==
    IF new_rhs # <<>> THEN <<Spaced(lhs, new_rhs)>> ELSE <<>>

RECURSIVE MaskTexts(_, _, _, _)
\* for mask in range(2**n_eps): the texts handed to add_rule.
MaskTexts(rule, positions, mask, n) ==
    IF mask >= n THEN <<>>
    ELSE TextUnlessEmpty(rule.lhs, Without(rule.rhs, SkipPositions(positions, mask)))
         \o MaskTexts(rule, positions, mask + 1, n)

\* The texts one rule contributes (lines 245-278), with its nullable positions.
RuleTexts(rule, positions) ==
    IF rule.rhs = <<>> THEN <<>>
    ELSE IF positions = <<>> THEN <<Spaced(rule.lhs, rule.rhs)>>
    ELSE MaskTexts(rule, positions, 0, Pow2(Len(positions)))

RECURSIVE EpsTexts(_, _, _)
\* The texts that the loop of lines 244-278 hands to add_rule, in order.
EpsTexts(list, i, eps) ==
    IF i > Len(list) THEN <<>>
    ELSE RuleTexts(list[i], EpsPositions(list[i].rhs, 1, eps))
         \o EpsTexts(list, i + 1, eps)

\* The name of the start that remove_epsilon_rules introduces.
NewStartName(start_symbol) == start_symbol \o <<"1">>

\* The texts of lines 240-241.
StartTexts(start_symbol) ==
    <<NewStartName(start_symbol) \o <<" ", "-", ">", " ">> \o start_symbol,
      NewStartName(start_symbol) \o <<" ", "-", ">", " ", "ε">> >>

\* Lines 235-282 with the nullable set.
WithoutEpsilon(list, start_symbol, eps) ==
    IF start_symbol \in eps
    THEN IF NonterminalErr(NewStartName(start_symbol)) # NoError
         THEN [g |-> EmptyGrammar, err |-> NonterminalErr(NewStartName(start_symbol))]
         ELSE AddAll(NewGrammar, StartTexts(start_symbol) \o EpsTexts(list, 1, eps))
    ELSE AddAll(NewGrammar, EpsTexts(list, 1, eps))

EpsilonFreeOf(list, start_symbol) ==
    WithoutEpsilon(list, start_symbol, eps_producers(list))

remove_epsilon_rules(g, start_symbol, h) ==
    EpsilonFreeOf(get_rules_list(g, h), start_symbol)

(***************************************************************************)
(* Pass 4: eliminate_chain_rules.                                          *)
(***************************************************************************)
\* A chain rule: one nonterminal on the right.
IsChainRule(r) == Len(r.rhs) = 1 /\ r.rhs[1].cat = "N"

RECURSIVE find_chain(_, _, _)
RECURSIVE ChainLoop(_, _, _, _)
\* find_chain(nt, visited) over the rules rs in set order: [chain, visited],
\* the set returned and the visited set, which the calls share.
find_chain(rs, nt, visited) ==
    IF nt \in visited THEN [chain |-> {}, visited |-> visited]
    ELSE ChainLoop(rs, 1, nt, [chain |-> {nt}, visited |-> visited \cup {nt}])

\* chain.update(sub.chain), the visited set being the shared one
Updated(acc, sub) ==
    [chain |-> acc.chain \cup sub.chain, visited |-> sub.visited]

\* "for rule in grammar.rules" of find_chain
ChainLoop(rs, i, nt, acc) ==
    IF i > Len(rs) THEN acc
    ELSE IF rs[i].lhs = nt /\ IsChainRule(rs[i])
    THEN ChainLoop(rs, i + 1, nt,
                   Updated(acc, find_chain(rs, rs[i].rhs[1].value, acc.visited)))
    ELSE ChainLoop(rs, i + 1, nt, acc)

\* for rule_b in grammar.rules: the non-chain rules of b, rendered for nt.
CopiesOf(rs, nt, b) ==
    LET mine == SelectSeq(rs, LAMBDA r : r.lhs = b /\ ~IsChainRule(r))
    IN  [i \in 1..Len(mine) |-> Spaced(nt, mine[i].rhs)]

RECURSIVE ChainMembers(_, _, _, _)
\* for b in chain
ChainMembers(rs, nt, bs, i) ==
    IF i > Len(bs) THEN <<>>
    ELSE CopiesOf(rs, nt, bs[i]) \o ChainMembers(rs, nt, bs, i + 1)

RECURSIVE ChainTexts(_, _, _)
\* for rule in grammar.rules
ChainTexts(rs, i, h) ==
    IF i > Len(rs) THEN <<>>
    ELSE ChainMembers(rs, rs[i].lhs,
                      SymSetOrder(find_chain(rs, rs[i].lhs, {}).chain, h), 1)
         \o ChainTexts(rs, i + 1, h)

RECURSIVE Unprocessed(_, _)
\* "if new_rule_str not in processed_rules": the first occurrence of each text.
Unprocessed(texts, processed) ==
    IF texts = <<>> THEN <<>>
    ELSE IF texts[1] \in processed THEN Unprocessed(Tail(texts), processed)
    ELSE <<texts[1]>> \o Unprocessed(Tail(texts), processed \cup {texts[1]})

\* Lines 305-327 over the rules in set order.
ChainFreeOf(rs, h) == AddAll(NewGrammar, Unprocessed(ChainTexts(rs, 1, h), {}))

eliminate_chain_rules(g, h) == ChainFreeOf(RuleSetOrder(g.rules, h), h)

(***************************************************************************)
(* Pass 5: to_chomsky_normal_form.                                         *)
(***************************************************************************)
DecDigits == <<"0", "1", "2", "3", "4", "5", "6", "7", "8", "9">>

RECURSIVE Dec(_)
\* str(n)
Dec(n) ==
    IF n < 10 THEN <<DecDigits[n + 1]>>
    ELSE Dec(n \div 10) \o <<DecDigits[(n % 10) + 1]>>

\* f"X{n}"
XName(n) == <<"X">> \o Dec(n)

RECURSIVE get_new_nonterminal(_, _)
\* get_new_nonterminal() with next_nt_number = n, over the rules of the
\* grammar being converted: [nt, n, err].  Only left-hand sides are scanned.
get_new_nonterminal(n, rules) ==
    IF \E r \in rules : r.lhs = XName(n)
    THEN get_new_nonterminal(n + 1, rules)
    ELSE [nt |-> XName(n), n |-> n + 1, err |-> NonterminalErr(XName(n))]

\* cnf.rules.add(rule): a set keeps the member it has.
SetAdd(rules, r) ==
    IF \E q \in rules : RuleEq(q, r) THEN rules ELSE rules \cup {r}

\* The state of the conversion: cnf, new_rules (in insertion order),
\* terminal_rules (as pairs [t, nt]), next_nt_number, and what was raised.
CnfStart ==
    [cnf |-> EmptyGrammar, new_rules |-> <<>>, terminal_rules |-> {},
     n |-> 1, err |-> NoError]

\* Lines 351-355 with the nonterminal just allocated (fresh) and the result
\* of cnf.add_rule for it (added).
Allocated(symbol, st, new_rhs, fresh, added) ==
    [st |-> [st EXCEPT !.cnf = added.g,
                       !.err = added.err,
                       !.n = fresh.n,
                       !.terminal_rules =
                           @ \cup {[t |-> symbol.value, nt |-> fresh.nt]}],
     new_rhs |-> Append(new_rhs, Nonterminal(fresh.nt))]

\* Lines 351-355: a terminal met for the first time.
FirstUse(symbol, st, new_rhs, fresh) ==
    IF fresh.err # NoError
    THEN [st |-> [st EXCEPT !.err = fresh.err], new_rhs |-> new_rhs]
    ELSE Allocated(symbol, st, new_rhs, fresh,
                   add_rule(st.cnf,
                            fresh.nt \o <<" ", "-", ">", " ">> \o symbol.value,
                            NoPosition))

\* terminal_rules[symbol.value]
TerminalRule(st, symbol) ==
    (CHOOSE p \in st.terminal_rules : p.t = symbol.value).nt

\* One symbol of a rule with two symbols or more (lines 349-357): the state
\* and the new right-hand side after it.
IsolateSymbol(symbol, st, new_rhs, rules) ==
    IF symbol.cat = "T" THEN
        IF \E p \in st.terminal_rules : p.t = symbol.value
        THEN [st |-> st,
              new_rhs |-> Append(new_rhs, Nonterminal(TerminalRule(st, symbol)))]
        ELSE FirstUse(symbol, st, new_rhs, get_new_nonterminal(st.n, rules))
    ELSE [st |-> st, new_rhs |-> Append(new_rhs, symbol)]

RECURSIVE IsolateSymbols(_, _, _, _)
\* "for symbol in rule.rhs": acc is [st, new_rhs].
IsolateSymbols(rhs, i, acc, rules) ==
    IF i > Len(rhs) \/ acc.st.err # NoError THEN acc
    ELSE IsolateSymbols(rhs, i + 1,
                        IsolateSymbol(rhs[i], acc.st, acc.new_rhs, rules), rules)

\* Line 358: new_rules[rule] = (rule.lhs, new_rhs)
Remembered(rule, r) ==
    [r.st EXCEPT !.new_rules = Append(@, [lhs |-> rule.lhs, rhs |-> r.new_rhs])]

\* One rule of the first loop (lines 346-362).
IsolateRule(rule, st, rules) ==
    IF Len(rule.rhs) >= 2
    THEN Remembered(rule,
             IsolateSymbols(rule.rhs, 1, [st |-> st, new_rhs |-> <<>>], rules))
    ELSE [st EXCEPT !.cnf.rules =
             SetAdd(@, [lhs |-> rule.lhs, rhs |-> rule.rhs, num |-> 0])]

RECURSIVE IsolateRules(_, _, _, _)
\* The first loop (lines 345-362) over the rules in order.
IsolateRules(list, i, st, rules) ==
    IF i > Len(list) \/ st.err # NoError THEN st
    ELSE IsolateRules(list, i + 1, IsolateRule(list[i], st, rules), rules)

RECURSIVE BinarizeRule(_, _, _, _)
\* Lines 369-377 with the nonterminal just allocated: the state, and the
\* loop again on the shortened right-hand side.
Paired(lhs, current_rhs, st, rules, fresh) ==
    IF fresh.err # NoError THEN [st EXCEPT !.err = fresh.err]
    ELSE BinarizeRule(lhs,
             Append(SubSeq(current_rhs, 1, Len(current_rhs) - 2),
                    Nonterminal(fresh.nt)),
             [st EXCEPT !.cnf.rules =
                            SetAdd(@, [lhs |-> fresh.nt,
                                       rhs |-> SubSeq(current_rhs,
                                                      Len(current_rhs) - 1,
                                                      Len(current_rhs)),
                                       num |-> 0]),
                        !.n = fresh.n],
             rules)

\* The while loop of lines 368-381 for one entry of new_rules.
BinarizeRule(lhs, current_rhs, st, rules) ==
    IF st.err # NoError THEN st
    ELSE IF Len(current_rhs) > 2
    THEN Paired(lhs, current_rhs, st, rules, get_new_nonterminal(st.n, rules))
    ELSE IF current_rhs # <<>>
    THEN [st EXCEPT !.cnf.rules =
             SetAdd(@, [lhs |-> lhs, rhs |-> current_rhs, num |-> 0])]
    ELSE st

RECURSIVE BinarizeRules(_, _, _, _)
\* The second loop (lines 365-381) over new_rules in insertion order.
BinarizeRules(entries, i, st, rules) ==
    IF i > Len(entries) \/ st.err # NoError THEN st
    ELSE BinarizeRules(entries, i + 1,
             BinarizeRule(entries[i].lhs, entries[i].rhs, st, rules), rules)

\* The rules of a sorted list numbered 1..N.
Numbered(sorted_rules) ==
    {[sorted_rules[i] EXCEPT !.num = i] : i \in 1..Len(sorted_rules)}

\* Lines 384-387: the rules numbered in sorted order.
Renumber(g, h) ==
    [rules |-> Numbered(StableSort(RuleSetOrder(g.rules, h))),
     next |-> Cardinality(g.rules) + 1]

\* Lines 383-389 on the state the two loops leave.
Finished(done, h) ==
    IF done.err # NoError THEN [g |-> done.cnf, err |-> done.err]
    ELSE [g |-> Renumber(done.cnf, h), err |-> NoError]

\* Lines 365-389 on the state the first loop leaves.
Binarized(isolated, rules, h) ==
    Finished(BinarizeRules(isolated.new_rules, 1, isolated, rules), h)

to_chomsky_normal_form(g, h) ==
    Binarized(IsolateRules(get_rules_list(g, h), 1, CnfStart, g.rules), g.rules, h)

(***************************************************************************)
(* CYKParser.__init__: [start_symbol, grammar, err].  start_symbol is      *)
(* <<>> for None.  A pass that raises ends the constructor.                *)
(***************************************************************************)
NoStart == <<>>

\* Line 402
Pass5(g4, h) ==
    IF g4.err # NoError THEN g4 ELSE to_chomsky_normal_form(g4.g, h)

\* Line 401
Pass4(g3, h) ==
    IF g3.err # NoError THEN g3 ELSE Pass5(eliminate_chain_rules(g3.g, h), h)

\* Line 400
Pass3(g2, start_symbol, h) ==
    IF g2.err # NoError THEN g2
    ELSE Pass4(remove_epsilon_rules(g2.g, start_symbol, h), h)

\* Line 399
Pass2(g1, start_symbol, h) ==
    IF g1.err # NoError THEN g1
    ELSE Pass3(remove_unreachable(g1.g, start_symbol, h), start_symbol, h)

\* Lines 398-402
Pipeline(grammar, start_symbol, h) ==
    Pass2(remove_nonproductive(grammar, h), start_symbol, h)

\* Lines 394-404 with the start symbol found.
Normalized(start_symbol, p) ==
    [start_symbol |-> start_symbol, grammar |-> p.g, err |-> p.err]

\* Line 394, for a grammar with rules
StartOf(grammar, h) == get_rules_list(grammar, h)[1].lhs

\* Lines 396-402
WithStart(grammar, start_symbol, h) ==
    Normalized(start_symbol, Pipeline(grammar, start_symbol, h))

CYKParser(grammar, h) ==
    IF grammar.rules = {}
    THEN [start_symbol |-> NoStart, grammar |-> grammar, err |-> NoError]
    ELSE WithStart(grammar, StartOf(grammar, h), h)

(***************************************************************************)
(* The CYK recognizer.  The recognition table is the set of its entries    *)
(* [i, j, nt, num]: (nt, num) is in the set stored under the key (i, j).   *)
(***************************************************************************)
Cell(t, i, j) == {e \in t : e.i = i /\ e.j = j}

\* (i, j) in self.recognition_table
HasCell(t, i, j) == Cell(t, i, j) # {}

\* parse without its first step: the table of the earlier call is kept.
KeepTable(t) == t

\* Line 409: self.recognition_table = {}
ResetTable(t) == {}

\* len(rule.rhs) == 1 and isinstance(rule.rhs[0], Terminal) and
\* rule.rhs[0].value == c
IsTerminalRule(r, c) ==
    Len(r.rhs) = 1 /\ r.rhs[1].cat = "T" /\ r.rhs[1].value = <<c>>

\* Lines 412-415: the entries of span 1.  word[i] is word[i + 1] here.
BaseEntries(rules, word) ==
    {[i |-> i, j |-> 1, nt |-> r.lhs, num |-> r.num] :
        <<i, r>> \in {x \in (0..(Len(word) - 1)) \X rules :
                         IsTerminalRule(x[2], word[x[1] + 1])}}

\* The test of lines 421-428 with the right cell read at offset i instead
\* of i + k.
MatchesAtSameOffset(t, r, i, j, k) ==
    /\ Len(r.rhs) = 2
    /\ \E l \in Cell(t, i, k) : r.rhs[1].value = l.nt
    /\ \E q \in Cell(t, i, j - k) : r.rhs[2].value = q.nt

\* Lines 421-428 for one (i, j, k): rule r has its two symbols in the cells.
Matches(t, r, i, j, k) ==
    /\ Len(r.rhs) = 2
    /\ \E l \in Cell(t, i, k) : r.rhs[1].value = l.nt
    /\ \E q \in Cell(t, i + k, j - k) : r.rhs[2].value = q.nt

\* The entries the loops add for span j, read from the table t.
SpanEntries(t, rules, n, j) ==
    {[i |-> x[1], j |-> j, nt |-> x[3].lhs, num |-> x[3].num] :
        x \in {y \in (0..(n - j)) \X (1..(j - 1)) \X rules :
                  Matches(t, y[3], y[1], j, y[2])}}

RECURSIVE FillSpans(_, _, _, _)
\* for j in range(2, n + 1)
FillSpans(t, rules, n, j) ==
    IF j > n THEN t
    ELSE FillSpans(t \cup SpanEntries(t, rules, n, j), rules, n, j + 1)

\* The table at the end of parse(word), from the table t it starts with.
FillTable(t, rules, word) ==
    FillSpans(t \cup BaseEntries(rules, word), rules, Len(word), 2)

\* The entries of a cell in the iteration order of its set.
CellOrder(t, i, j, h) ==
    SortKeyed({[k |-> Codes(e.nt) \o <<0, e.num>>, v |-> e] : e \in Cell(t, i, j)},
              h.sym)

\* The join with the right subtree before the left one.
JoinTraceSwapped(num, left, right) == <<num>> \o right \o left

\* Line 470: the rule, then the left subtree, then the right subtree.
JoinTrace(num, left, right) == <<num>> \o left \o right

\* Where a "for" loop that tests flags[1], flags[2], ... in turn first
\* succeeds: the first index that holds TRUE, 0 when none does.
FirstIndex(flags) ==
    IF \E i \in 1..Len(flags) : flags[i]
    THEN CHOOSE i \in 1..Len(flags) :
             flags[i] /\ \A m \in 1..(i - 1) : ~flags[m]
    ELSE 0

RECURSIVE Candidates(_, _, _, _, _)
\* The triples (k, left_nt, right_nt) in the order lines 464-467 visit them.
Candidates(t, i, j, k, h) ==
    IF k >= j THEN <<>>
    ELSE LET ls == CellOrder(t, i, k, h)
             rs == CellOrder(t, i + k, j - k, h)
             pairs == [m \in 1..(Len(ls) * Len(rs)) |->
                          [k |-> k,
                           left |-> ls[((m - 1) \div Len(rs)) + 1].nt,
                           right |-> rs[((m - 1) % Len(rs)) + 1].nt]]
         IN  pairs \o Candidates(t, i, j, k + 1, h)

\* rule.lhs == current_nt and len(rule.rhs) == 2 and rule.rhs[0] == left_nt
\* and rule.rhs[1] == right_nt
IsBinaryFor(r, current_nt, c) ==
    /\ r.lhs = current_nt
    /\ Len(r.rhs) = 2
    /\ r.rhs[1].value = c.left
    /\ r.rhs[2].value = c.right

RECURSIVE trace_rules(_, _, _, _, _, _, _)
\* _trace_rules(i, j, current_nt) over the table t, the rules in order
\* (list) and the word.
trace_rules(t, list, word, i, j, current_nt, h) ==
    IF j = 1
    THEN LET unary(r) == IsTerminalRule(r, word[i + 1]) /\ r.lhs = current_nt
             m == FirstIndex([x \in 1..Len(list) |-> unary(list[x])])
         IN  IF m = 0 THEN <<>> ELSE <<list[m].num>>
    ELSE LET cands == Candidates(t, i, j, 1, h)
             usable(c) == \E r \in 1..Len(list) : IsBinaryFor(list[r], current_nt, c)
             m == FirstIndex([x \in 1..Len(cands) |-> usable(cands[x])])
         IN  IF m = 0 THEN <<>>
             ELSE LET c == cands[m]
                      fits(r) == IsBinaryFor(r, current_nt, c)
                      rule == list[FirstIndex([x \in 1..Len(list) |-> fits(list[x])])]
                  IN  JoinTrace(rule.num,
                                trace_rules(t, list, word, i, c.k, c.left, h),
                                trace_rules(t, list, word, i + c.k, j - c.k, c.right, h))

\* Lines 449-453: the rule number of the first entry of the cell that names
\* the start symbol, 0 for None.
StartRuleNumber(cell, start_symbol) ==
    LET named(e) == e.nt = start_symbol
        m == FirstIndex([x \in 1..Len(cell) |-> named(cell[x])])
    IN  IF m = 0 THEN 0 ELSE cell[m].num

\* get_derivation_rules(word)
get_derivation_rules(t, list, word, start_symbol, h) ==
    IF ~HasCell(t, 0, Len(word)) \/ start_symbol = NoStart THEN <<>>
    ELSE IF StartRuleNumber(CellOrder(t, 0, Len(word), h), start_symbol) = 0
    THEN <<>>
    ELSE trace_rules(t, list, word, 0, Len(word), start_symbol, h)

\* What parse returns.  (False, None) is [accepted |-> FALSE, derivation |-> <<>>].
Rejected == [accepted |-> FALSE, derivation |-> <<>>]

\* The verdict of lines 431-436 on the filled table t.
Verdict(t, g, word, start_symbol, h) ==
    IF /\ HasCell(t, 0, Len(word))
       /\ start_symbol # NoStart
       /\ \E e \in Cell(t, 0, Len(word)) : e.nt = start_symbol
    THEN [accepted |-> TRUE,
          derivation |-> get_derivation_rules(t, get_rules_list(g, h), word,
                                              start_symbol, h)]
    ELSE Rejected

(***************************************************************************)
(* The inputs.  A run takes its rule texts from one pool; the words are    *)
(* all the words over WordChars of length at most MaxWordLen.              *)
(***************************************************************************)
\* Scenario 1 of the spec.
\*   S -> A S
\*   S -> a
\*   A -> b
Pool1 ==
    {<<"S", " ", "-", ">", " ", "A", " ", "S">>,
     <<"S", " ", "-", ">", " ", "a">>,
     <<"A", " ", "-", ">", " ", "b">>}

\* Scenario 3 of the spec: a nullable start.
\*   S -> A S
\*   S -> ε
\*   A -> a
Pool2 ==
    {<<"S", " ", "-", ">", " ", "A", " ", "S">>,
     <<"S", " ", "-", ">", " ", "ε">>,
     <<"A", " ", "-", ">", " ", "a">>}

\* An ambiguous grammar: several rules and splits justify one cell.
\*   S -> S S
\*   S -> a S
\*   S -> a
Pool3 ==
    {<<"S", " ", "-", ">", " ", "S", " ", "S">>,
     <<"S", " ", "-", ">", " ", "a", " ", "S">>,
     <<"S", " ", "-", ">", " ", "a">>}

\* Long right-hand sides with terminals, and a nonterminal named X1.
\*   S -> X1 a
\*   X1 -> ε
\*   S -> a S b
Pool4 ==
    {<<"S", " ", "-", ">", " ", "X", "1", " ", "a">>,
     <<"X", "1", " ", "-", ">", " ", "ε">>,
     <<"S", " ", "-", ">", " ", "a", " ", "S", " ", "b">>}

\* A nonterminal named S1 beside a nullable S.
\*   S -> S1 a
\*   S -> ε
\*   S1 -> b
Pool5 ==
    {<<"S", " ", "-", ">", " ", "S", "1", " ", "a">>,
     <<"S", " ", "-", ">", " ", "ε">>,
     <<"S", "1", " ", "-", ">", " ", "b">>}

\* The terminals e, p, s around a nullable nonterminal.
\*   S -> e A p s
\*   A -> ε
\*   S -> a
Pool6 ==
    {<<"S", " ", "-", ">", " ", "e", " ", "A", " ", "p", " ", "s">>,
     <<"A", " ", "-", ">", " ", "ε">>,
     <<"S", " ", "-", ">", " ", "a">>}

\* A primed nonterminal, nullable, before a digit terminal.
\*   S -> A B' 1
\*   B' -> ε
\*   A -> a
Pool7 ==
    {<<"S", " ", "-", ">", " ", "A", " ", "B", "'", " ", "1">>,
     <<"B", "'", " ", "-", ">", " ", "ε">>,
     <<"A", " ", "-", ">", " ", "a">>}

\* Chain rules, in a cycle when A -> B and B -> A are both taken.
\*   S -> A
\*   A -> B
\*   B -> A
\*   B -> b
Pool8 ==
    {<<"S", " ", "-", ">", " ", "A">>,
     <<"A", " ", "-", ">", " ", "B">>,
     <<"B", " ", "-", ">", " ", "A">>,
     <<"B", " ", "-", ">", " ", "b">>}

\* Texts that add_rule refuses, beside three it accepts; the start S12 of
\* the last one is nullable and has a name of 3 characters.
\*   S -> a
\*   S -> b S
\*   -> a
\*   S a
\*   s -> a
\*   S -> A''''
\*   S -> a -> b
\*   S12 -> ε
Pool9 ==
    {<<"S", " ", "-", ">", " ", "a">>,
     <<"S", " ", "-", ">", " ", "b", " ", "S">>,
     <<"-", ">", " ", "a">>,
     <<"S", " ", "a">>,
     <<"s", " ", "-", ">", " ", "a">>,
     <<"S", " ", "-", ">", " ", "A", "'", "'", "'", "'">>,
     <<"S", " ", "-", ">", " ", "a", " ", "-", ">", " ", "b">>,
     <<"S", "1", "2", " ", "-", ">", " ", "ε">>}

Pools == <<Pool1, Pool2, Pool3, Pool4, Pool5, Pool6, Pool7, Pool8, Pool9>>

WordChars == {"a", "b"}

Words == UNION {[1..n -> WordChars] : n \in 0..MaxWordLen}

Positions == {NoPosition} \cup {At(p) : p \in 0..MaxPosition}

(***************************************************************************)
(* The state: the Grammar under construction, what the last call raised,   *)
(* the CYKParser built from it (start_symbol, parser_grammar,              *)
(* recognition_table), and the last word parsed with what parse returned.  *)
(* phase is "build" while rules are added, "ready" once the parser is      *)
(* constructed, "parsed" after a parse call, "failed" when the constructor *)
(* raised.  parses counts the parse calls made on the parser.  pool and    *)
(* hashseed are fixed for the run.                                         *)
(***************************************************************************)
VARIABLES pool, hashseed, grammar, raised, phase, start_symbol,
          parser_grammar, recognition_table, word, result, parses

vars == <<pool, hashseed, grammar, raised, phase, start_symbol,
          parser_grammar, recognition_table, word, result, parses>>

Init ==
    /\ pool \in 1..Len(Pools)
    /\ hashseed \in HashSeeds
    /\ grammar = EmptyGrammar
    /\ raised = NoError
    /\ phase = "build"
    /\ start_symbol = NoStart
    /\ parser_grammar = EmptyGrammar
    /\ recognition_table = {}
    /\ word = <<>>
    /\ result = Rejected
    /\ parses = 0

\* The state after add_rule returned r.
Added(r) ==
    /\ grammar' = r.g
    /\ raised' = r.err

\* grammar.add_rule(text, position)
AddRule(text, position) ==
    /\ phase = "build"
    /\ Cardinality(grammar.rules) < MaxRules
    /\ Added(add_rule(grammar, text, position))
    /\ UNCHANGED <<pool, hashseed, phase, start_symbol, parser_grammar,
                   recognition_table, word, result, parses>>

\* The state after the constructor returned p.
Constructed(p) ==
    /\ raised' = p.err
    /\ phase' = IF p.err = NoError THEN "ready" ELSE "failed"
    /\ start_symbol' = IF p.err = NoError THEN p.start_symbol ELSE NoStart
    /\ parser_grammar' = IF p.err = NoError THEN p.grammar ELSE EmptyGrammar

\* parser = CYKParser(grammar)
Construct ==
    /\ phase = "build"
    /\ Constructed(CYKParser(grammar, hashseed))
    /\ recognition_table' = {}
    /\ UNCHANGED <<pool, hashseed, grammar, word, result, parses>>

\* The state after parse filled the table t.
Parsed(t, w) ==
    /\ recognition_table' = t
    /\ result' = Verdict(t, parser_grammar, w, start_symbol, hashseed)

\* parser.parse(w)
Parse(w) ==
    /\ phase \in {"ready", "parsed"}
    /\ parses < MaxParses
    /\ Parsed(FillTable(ResetTable(recognition_table), parser_grammar.rules, w), w)
    /\ word' = w
    /\ phase' = "parsed"
    /\ raised' = NoError
    /\ parses' = parses + 1
    /\ UNCHANGED <<pool, hashseed, grammar, start_symbol, parser_grammar>>

Next ==
    \/ \E text \in Pools[pool], position \in Positions : AddRule(text, position)
    \/ Construct
    \/ \E w \in Words : Parse(w)

Spec == Init /\ [][Next]_vars

(***************************************************************************)
(* What the claims speak of: derivation in a context-free grammar, defined *)
(* on the rules as add_rule stored them, independently of the passes.      *)
(***************************************************************************)
\* The start nonterminal of a grammar: the left-hand side of rule number 1.
OriginalStart(g) == (CHOOSE r \in g.rules : r.num = 1).lhs

\* The spans (i, l) of a word: l characters from offset i.
Spans(w) ==
    {s \in (0..Len(w)) \X (0..Len(w)) : s[1] + s[2] <= Len(w)}

RECURSIVE SeqDerives(_, _, _, _, _)
\* The symbols rhs derive the l characters of w from offset i, when the
\* triples of D say which nonterminal derives which span.
SeqDerives(D, rhs, w, i, l) ==
    IF rhs = <<>> THEN l = 0
    ELSE \E m \in 0..l :
            /\ IF rhs[1].cat = "T"
               THEN m = 1 /\ rhs[1].value = <<w[i + 1]>>
               ELSE <<rhs[1].value, i, m>> \in D
            /\ SeqDerives(D, Tail(rhs), w, i + m, l - m)

\* One more round of derivations.
DerivStep(D, rules, w) ==
    D \cup {<<x[1].lhs, x[2][1], x[2][2]>> :
               x \in {y \in rules \X Spans(w) :
                         SeqDerives(D, y[1].rhs, w, y[2][1], y[2][2])}}

RECURSIVE DerivClosure(_, _, _)
\* The least set of triples (A, i, l) closed under the rules: A derives the
\* l characters of w from offset i.
DerivClosure(D, rules, w) ==
    IF DerivStep(D, rules, w) = D THEN D
    ELSE DerivClosure(DerivStep(D, rules, w), rules, w)

\* The nonterminal nt derives the word w in the grammar g.
Derives(g, nt, w) == <<nt, 0, Len(w)>> \in DerivClosure({}, g.rules, w)

\* The nonterminal nt derives the empty word in the grammar g.
Nullable(g, nt) == Derives(g, nt, <<>>)

\* A parse call has returned on a parser built from a grammar with rules.
ParsedSome == phase = "parsed" /\ grammar.rules # {}

(***************************************************************************)
(* C1.  For every grammar G built through add_rule and every word w with   *)
(* |w| >= 1, CYKParser(G).parse(w) accepts if and only if the start        *)
(* nonterminal of G (the left-hand side of rule number 1) derives w in G.  *)
(***************************************************************************)
C1_MembershipPreserved ==
    (ParsedSome /\ Len(word) >= 1)
        => (result.accepted <=> Derives(grammar, OriginalStart(grammar), word))

(***************************************************************************)
(* C2.  For every grammar G, parse("") returns accepted = true if and only *)
(* if the original start nonterminal of G is nullable.                     *)
(***************************************************************************)
C2_EmptyWordIffNullable ==
    (ParsedSome /\ word = <<>>)
        => (result.accepted <=> Nullable(grammar, OriginalStart(grammar)))

\* A rule of Chomsky normal form: one terminal, or two nonterminals.
IsCnfRule(r) ==
    \/ Len(r.rhs) = 1 /\ r.rhs[1].cat = "T"
    \/ Len(r.rhs) = 2 /\ r.rhs[1].cat = "N" /\ r.rhs[2].cat = "N"

\* One of the two rules introduced for a nullable start: S1 -> epsilon and
\* S1 -> S, for the start S of the grammar g.
IsNullableStartRule(r, g) ==
    /\ r.lhs = NewStartName(OriginalStart(g))
    /\ r.rhs = <<>> \/ r.rhs = <<Nonterminal(OriginalStart(g))>>

(***************************************************************************)
(* C3.  Every rule of the grammar that CYKParser.__init__ stores after the *)
(* pipeline has a right-hand side of exactly one terminal or of exactly    *)
(* two nonterminals, except the rules introduced for a nullable start.     *)
(***************************************************************************)
C3_CnfShape ==
    (phase \in {"ready", "parsed"} /\ grammar.rules # {})
        => \A r \in parser_grammar.rules :
              IsCnfRule(r) \/ IsNullableStartRule(r, grammar)

\* The rules of g that carry the rule number n.
RulesNumbered(g, n) == {r \in g.rules : r.num = n}

\* The index of the leftmost nonterminal of a sentential form, 0 when it
\* has none.
Leftmost(form) ==
    IF \E i \in 1..Len(form) : form[i].cat = "N"
    THEN CHOOSE i \in 1..Len(form) :
             form[i].cat = "N" /\ \A m \in 1..(i - 1) : form[m].cat # "N"
    ELSE 0

\* Where a replay ends when a cited number names no rule, or a rule of
\* another nonterminal than the leftmost one.
Stuck == [ok |-> FALSE, form |-> <<>>]

\* The sentential form with the nonterminal at index i replaced by rhs.
Rewritten(form, i, rhs) ==
    SubSeq(form, 1, i - 1) \o rhs \o SubSeq(form, i + 1, Len(form))

RECURSIVE Replay(_, _, _)
\* The leftmost derivation that applies the rules numbered nums, in order,
\* from the sentential form: [ok, form].
Replay(g, form, nums) ==
    IF nums = <<>> THEN [ok |-> TRUE, form |-> form]
    ELSE IF Leftmost(form) = 0 \/ Cardinality(RulesNumbered(g, nums[1])) # 1
    THEN Stuck
    ELSE LET r == CHOOSE r \in RulesNumbered(g, nums[1]) : TRUE
         IN  IF r.lhs # form[Leftmost(form)].value THEN Stuck
             ELSE Replay(g, Rewritten(form, Leftmost(form), r.rhs), Tail(nums))

\* The word w as a sentential form of terminals.
AsTerminals(w) == [i \in 1..Len(w) |-> Terminal(w[i])]

\* The rule numbers nums, replayed from the nonterminal start, yield w.
ProvesMembership(g, start, nums, w) ==
    Replay(g, <<Nonterminal(start)>>, nums) = [ok |-> TRUE, form |-> AsTerminals(w)]

(***************************************************************************)
(* C4.  Whenever parse(w) accepts a word w with |w| = n >= 1, the returned *)
(* derivation is a pre-order sequence of exactly 2n-1 rule numbers of the  *)
(* stored grammar that proves membership: applying the cited rules in      *)
(* order from the start nonterminal, each to the leftmost nonterminal,     *)
(* yields exactly w.                                                       *)
(***************************************************************************)
C4_DerivationProvesMembership ==
    (phase = "parsed" /\ result.accepted /\ Len(word) >= 1)
        => /\ Len(result.derivation) = 2 * Len(word) - 1
           /\ ProvesMembership(parser_grammar, start_symbol, result.derivation, word)

\* Scenario 1: the grammar {S -> A S, S -> a, A -> b} has accepted "ba" with
\* a derivation of three rules.
C4_AcceptedScenario ==
    /\ phase = "parsed"
    /\ pool = 1
    /\ {RuleKey(r) : r \in grammar.rules}
         = {<<<<"S">>, <<<<"A">>, <<"S">>>>>>, <<<<"S">>, <<<<"a">>>>>>,
            <<<<"A">>, <<<<"b">>>>>>}
    /\ word = <<"b", "a">>
    /\ result.accepted
    /\ Len(result.derivation) = 3

\* The rules of nonterminal nt that match the span (i, j) at split k.
MatchingAt(t, rules, nt, i, j, k) ==
    {r \in rules : r.lhs = nt /\ Matches(t, r, i, j, k)}

\* The splits of the span (i, j) at which a rule of nt matches.
SplitsFor(t, rules, nt, i, j) ==
    {k \in 1..(j - 1) : MatchingAt(t, rules, nt, i, j, k) # {}}

\* The smallest member of a non-empty set of numbers.
Least(S) == CHOOSE x \in S : \A y \in S : x <= y

\* The rule of the documented policy for the cell (i, j, nt): the smallest
\* split, then the smallest rule number matching at that split.
PolicyRule(t, rules, nt, i, j) ==
    LET k == Least(SplitsFor(t, rules, nt, i, j))
        n == Least({r.num : r \in MatchingAt(t, rules, nt, i, j, k)})
    IN  [k |-> k,
         rule |-> CHOOSE r \in MatchingAt(t, rules, nt, i, j, k) : r.num = n]

RECURSIVE PolicyTrace(_, _, _, _, _, _)
\* The pre-order rule numbers of the tree the documented policy builds.
PolicyTrace(t, rules, w, i, j, nt) ==
    IF j = 1
    THEN LET unary == {r \in rules : IsTerminalRule(r, w[i + 1]) /\ r.lhs = nt}
         IN  IF unary = {} THEN <<>> ELSE <<Least({r.num : r \in unary})>>
    ELSE IF SplitsFor(t, rules, nt, i, j) = {} THEN <<>>
    ELSE LET c == PolicyRule(t, rules, nt, i, j)
         IN  <<c.rule.num>>
             \o PolicyTrace(t, rules, w, i, c.k, c.rule.rhs[1].value)
             \o PolicyTrace(t, rules, w, i + c.k, j - c.k, c.rule.rhs[2].value)

(***************************************************************************)
(* C5.  In derivation reconstruction, for every cell (i, j, A) with j > 1  *)
(* that several (split, rule) pairs justify, the smallest split k is       *)
(* chosen and, among the rules A -> B C matching at that k, the one with   *)
(* the smallest rule number, whatever the iteration order of the sets of   *)
(* the recognition table: the returned derivation is the one this policy   *)
(* builds.                                                                 *)
(***************************************************************************)
C5_TieBreakPolicy ==
    (phase = "parsed" /\ result.accepted)
        => result.derivation
             = PolicyTrace(recognition_table, parser_grammar.rules, word,
                           0, Len(word), start_symbol)

\* What a first parse(w) returns on a parser fresh from the constructor,
\* which stored the grammar g and the start symbol start.
FirstParse(g, start, w, h) ==
    Verdict(FillTable({}, g.rules, w), g, w, start, h)

(***************************************************************************)
(* C6.  After any sequence of earlier parse calls on one parser, parse(w)  *)
(* returns the same (accepted, derivation) pair as a first parse(w) on a   *)
(* fresh parser for the same grammar, and the recognition table it leaves  *)
(* is the one built from empty for w alone: no cell of an earlier call     *)
(* remains in it.                                                          *)
(***************************************************************************)
C6_ParseIndependentOfEarlierCalls ==
    phase = "parsed"
        => /\ result = FirstParse(parser_grammar, start_symbol, word, hashseed)
           /\ recognition_table = FillTable({}, parser_grammar.rules, word)

\* A second parse call on one parser has accepted a word of two or more
\* characters.
C6_SecondParseAccepted ==
    /\ phase = "parsed"
    /\ parses >= 2
    /\ result.accepted
    /\ Len(word) >= 2

(***************************************************************************)
(* C7.  For every grammar that add_rule accepted and every word,           *)
(* constructing CYKParser and calling parse raise no error and end with a  *)
(* definite verdict; the empty grammar gives accepted = false.             *)
(***************************************************************************)
C7_NoErrorAfterIngestion ==
    /\ phase # "failed"
    /\ phase \in {"ready", "parsed"} => raised = NoError
    /\ phase = "parsed" => result.accepted \in BOOLEAN
    /\ (phase = "parsed" /\ grammar.rules = {}) => result = Rejected

\* The text decodes to a rule that the grammar g does not hold yet.
IsNewRule(g, d) == d.err = NoError /\ ~HasRule(g, d.lhs, d.rhs)

\* The rules of g with every rule number >= p incremented by one.
Shifted(g, p) ==
    {[r EXCEPT !.num = IF r.num >= p THEN r.num + 1 ELSE r.num] : r \in g.rules}

\* The rules after the rule of d is inserted at the ordinal p.
InsertedAt(g, d, p) ==
    Shifted(g, p) \cup {[lhs |-> d.lhs, rhs |-> d.rhs, num |-> p]}

(***************************************************************************)
(* C8.  add_rule(text, position = p) with p >= 1 and a structurally new    *)
(* rule succeeds: every existing rule whose ordinal is >= p has its        *)
(* ordinal incremented by one, every rule with ordinal < p keeps its       *)
(* ordinal, and the new rule takes ordinal p.                              *)
(***************************************************************************)
C8_PositionalInsertShifts ==
    [][\A text \in Pools[pool], p \in 1..MaxPosition :
          (AddRule(text, At(p)) /\ IsNewRule(grammar, Decode(text)))
              => /\ raised' = NoError
                 /\ grammar'.rules = InsertedAt(grammar, Decode(text), p)]_vars

(***************************************************************************)
(* C9.  Every add_rule call that fails leaves the grammar unchanged: the   *)
(* set of rules, the ordinal of every rule and the next-ordinal counter    *)
(* are the same as before the call, after any sequence of earlier          *)
(* successful and failed calls.                                            *)
(***************************************************************************)
C9_FailedAddRuleChangesNothing ==
    [][\A text \in Pools[pool], position \in Positions :
          (AddRule(text, position) /\ raised' # NoError) => grammar' = grammar]_vars

\* A call has failed on a grammar that earlier calls filled with two or more
\* rules.
C9_FailedOnFilledGrammar ==
    /\ phase = "build"
    /\ raised # NoError
    /\ Cardinality(grammar.rules) >= 2

(***************************************************************************)
(* C10.  Every failing add_rule call fails with one of the three declared  *)
(* error kinds: InvalidRuleFormat (the text does not split into two parts  *)
(* around "->"), InvalidNonterminal (a name that does not start with an    *)
(* uppercase letter, or is longer than 3 characters) or InvalidPosition    *)
(* (position < 1); no other kind of failure escapes add_rule.              *)
(***************************************************************************)
C10_OnlyDeclaredErrors ==
    phase = "build"
        => raised \in {NoError, ErrFormat, ErrUpper, ErrLong, ErrPosition}

\* The grammar g holds a rule with the left-hand side and the symbols of
\* the decoded text d, symbol for symbol and category for category.
Present(g, d) == \E r \in g.rules : r.lhs = d.lhs /\ r.rhs = d.rhs

\* One rule per (lhs, rhs), the ordinals exactly 1..N, each used once, and
\* the next ordinal N + 1.
DenselyNumbered(g) ==
    /\ \A r, q \in g.rules : (r.lhs = q.lhs /\ r.rhs = q.rhs) => r = q
    /\ {r.num : r \in g.rules} = 1..Cardinality(g.rules)
    /\ g.next = Cardinality(g.rules) + 1

(***************************************************************************)
(* C11.  After any sequence of add_rule calls without position on a new    *)
(* Grammar, the grammar holds exactly one rule per distinct decoded        *)
(* (lhs, rhs), the ordinals are exactly 1..N, each used once, in the order *)
(* of first insertion (a new rule takes ordinal N + 1 and no other ordinal *)
(* moves); a call whose decoded (lhs, rhs) is already present changes      *)
(* neither the rules, nor any ordinal, nor the next-ordinal counter.       *)
(***************************************************************************)
C11_OneRulePerKeyDenseOrdinals ==
    [][\A text \in Pools[pool] :
          (AddRule(text, NoPosition) /\ Decode(text).err = NoError)
              => /\ raised' = NoError
                 /\ DenselyNumbered(grammar')
                 /\ IF Present(grammar, Decode(text))
                    THEN grammar' = grammar
                    ELSE grammar'.rules
                           = grammar.rules
                               \cup {[lhs |-> Decode(text).lhs,
                                      rhs |-> Decode(text).rhs,
                                      num |-> Cardinality(grammar.rules) + 1]}]_vars

\* Three rules were added one after the other and carry the ordinals 1, 2, 3.
C11_ThreeRulesAdded ==
    /\ phase = "build"
    /\ raised = NoError
    /\ Cardinality(grammar.rules) = 3
    /\ {r.num : r \in grammar.rules} = {1, 2, 3}

\* A rendering: the rule (lhs, rhs) a pass holds and the text it hands to
\* add_rule of the next grammar.
Rendering(lhs, rhs, text) == [lhs |-> lhs, rhs |-> rhs, text |-> text]

\* The members of a sequence.
Members(seq) == {seq[i] : i \in 1..Len(seq)}

\* What remove_nonproductive renders: the rules it keeps.
RenderedNonproductive(list) ==
    {Rendering(r.lhs, r.rhs, Spaced(r.lhs, r.rhs)) :
        r \in {q \in Members(list) :
                  /\ q.lhs \in find_productive_nonterminals(list)
                  /\ AllIn(q.rhs, find_productive_nonterminals(list))}}

\* What remove_unreachable renders: the rules of the reachable nonterminals.
RenderedUnreachable(list, start) ==
    {Rendering(r.lhs, r.rhs, Tight(r.lhs, r.rhs)) :
        r \in {q \in Members(list) : q.lhs \in ReachableWhile(list, {}, {start})}}

\* The right-hand sides remove_epsilon_rules renders for one rule: the rule
\* itself, or its non-empty variants with nullable positions dropped.
VariantsOf(rule, positions) ==
    IF rule.rhs = <<>> THEN {}
    ELSE IF positions = <<>> THEN {rule.rhs}
    ELSE {Without(rule.rhs, SkipPositions(positions, mask)) :
             mask \in 0..(Pow2(Len(positions)) - 1)} \ {<<>>}

\* What remove_epsilon_rules renders.
RenderedEpsilon(list) ==
    UNION {{Rendering(r.lhs, v, Spaced(r.lhs, v)) :
               v \in VariantsOf(r, EpsPositions(r.rhs, 1, eps_producers(list)))} :
           r \in Members(list)}

\* What eliminate_chain_rules renders: for every rule's nonterminal nt and
\* every b of its chain, the non-chain rules of b under the name nt.
RenderedChain(rs) ==
    UNION {{Rendering(r.lhs, q.rhs, Spaced(r.lhs, q.rhs)) :
               q \in {x \in Members(rs) :
                         /\ x.lhs \in find_chain(rs, r.lhs, {}).chain
                         /\ ~IsChainRule(x)}} :
           r \in Members(rs)}

\* Decoding the text of a rendering gives back its rule.
RoundTrips(x) == Decode(x.text) = [err |-> NoError, lhs |-> x.lhs, rhs |-> x.rhs]

\* The renderings of the passes 2, 3 and 4, each run on the grammar the
\* pass before it returned.
RenderedFrom3(g3, h) ==
    IF g3.err # NoError THEN {} ELSE RenderedChain(RuleSetOrder(g3.g.rules, h))

RenderedFrom2(g2, start, h) ==
    IF g2.err # NoError THEN {}
    ELSE RenderedEpsilon(get_rules_list(g2.g, h))
           \cup RenderedFrom3(remove_epsilon_rules(g2.g, start, h), h)

RenderedFrom1(g1, start, h) ==
    IF g1.err # NoError THEN {}
    ELSE RenderedUnreachable(get_rules_list(g1.g, h), start)
           \cup RenderedFrom2(remove_unreachable(g1.g, start, h), start, h)

\* Every rendering the constructor makes on the grammar g when no pass
\* raises.
RenderedByPipeline(g, h) ==
    IF g.rules = {} THEN {}
    ELSE RenderedNonproductive(get_rules_list(g, h))
           \cup RenderedFrom1(remove_nonproductive(g, h), StartOf(g, h), h)

(***************************************************************************)
(* C12.  Round trip of the rule text: for every rule (lhs, rhs) that a     *)
(* pipeline stage renders to text and feeds to add_rule of the next        *)
(* grammar (remove_nonproductive, remove_unreachable, the variants of      *)
(* remove_epsilon_rules, the copies of eliminate_chain_rules), decoding    *)
(* the rendered text yields the same lhs and the same symbols, symbol for  *)
(* symbol and category for category.                                       *)
(***************************************************************************)
C12_RenderDecodeRoundTrip ==
    phase = "ready"
        => \A x \in RenderedByPipeline(grammar, hashseed) : RoundTrips(x)

\* The set of (lhs, rhs) rules of a grammar.
RuleSet(g) == {<<r.lhs, r.rhs>> : r \in g.rules}

\* The passes returned without raising and left the rule set of cnf as it is.
SameRuleSet(cnf, again) == again.err = NoError /\ RuleSet(again.g) = RuleSet(cnf)

(***************************************************************************)
(* C13.  Idempotence of normalization: for every grammar G with start      *)
(* symbol S, applying the five passes (with start S) to the CNF grammar    *)
(* that the five passes produced from G yields a grammar whose set of      *)
(* (lhs, rhs) rules is identical to that CNF grammar.                      *)
(***************************************************************************)
C13_PipelineIdempotent ==
    (phase = "ready" /\ start_symbol # NoStart)
        => SameRuleSet(parser_grammar,
                       Pipeline(parser_grammar, start_symbol, hashseed))

\* The nonterminals that occur in a grammar, on a left-hand side or on a
\* right-hand side.
NonterminalsIn(g) ==
    {r.lhs : r \in g.rules} \cup UNION {NonterminalsOf(r.rhs) : r \in g.rules}

\* The grammar remove_epsilon_rules is given by the constructor.
BeforeEpsilon(g, h) ==
    remove_unreachable(remove_nonproductive(g, h).g, StartOf(g, h), h).g

\* The grammar to_chomsky_normal_form is given by the constructor.
BeforeCnf(g, h) ==
    eliminate_chain_rules(
        remove_epsilon_rules(BeforeEpsilon(g, h), StartOf(g, h), h).g, h).g

\* The state of to_chomsky_normal_form after its two loops.
AfterLoops(g, h) ==
    BinarizeRules(IsolateRules(get_rules_list(g, h), 1, CnfStart, g.rules).new_rules,
                  1,
                  IsolateRules(get_rules_list(g, h), 1, CnfStart, g.rules),
                  g.rules)

\* The names get_new_nonterminal returned while g was converted: the
\* counter passed 1..n-1 and skipped the names that are a left-hand side.
AllocatedNames(g, h) ==
    {XName(k) : k \in 1..(AfterLoops(g, h).n - 1)} \ {r.lhs : r \in g.rules}

\* The start that remove_epsilon_rules introduces for g, if it does.
IntroducedStarts(g, start, h) ==
    IF start \in eps_producers(get_rules_list(g, h))
    THEN {NewStartName(start)} ELSE {}

(***************************************************************************)
(* C14.  Every nonterminal the pipeline introduces is fresh: each Xn that  *)
(* to_chomsky_normal_form allocates and the new start that                 *)
(* remove_epsilon_rules allocates (start name + "1") differ from every     *)
(* nonterminal occurring anywhere in the grammar being transformed, on a   *)
(* left-hand side or on a right-hand side.                                 *)
(***************************************************************************)
C14_IntroducedNonterminalsFresh ==
    (phase = "ready" /\ start_symbol # NoStart)
        => /\ IntroducedStarts(BeforeEpsilon(grammar, hashseed), start_symbol, hashseed)
                  \cap NonterminalsIn(BeforeEpsilon(grammar, hashseed)) = {}
           /\ AllocatedNames(BeforeCnf(grammar, hashseed), hashseed)
                  \cap NonterminalsIn(BeforeCnf(grammar, hashseed)) = {}

\* A rule A -> t with the terminal t, and a rule A -> B C of two
\* nonterminals.
IsUnaryOn(r, c) == r.rhs = <<Terminal(c)>>
IsBinaryRule(r) == Len(r.rhs) = 2 /\ r.rhs[1].cat = "N" /\ r.rhs[2].cat = "N"

RECURSIVE Recurrence(_, _, _, _)
\* The CYK recurrence: the rules r that belong to T(i, j) for the word w,
\* with offsets from 0.
Recurrence(rules, w, i, j) ==
    IF j = 1 THEN {r \in rules : IsUnaryOn(r, w[i + 1])}
    ELSE {r \in rules :
             /\ IsBinaryRule(r)
             /\ \E k \in 1..(j - 1) :
                   /\ \E b \in Recurrence(rules, w, i, k) : b.lhs = r.rhs[1].value
                   /\ \E c \in Recurrence(rules, w, i + k, j - k) :
                         c.lhs = r.rhs[2].value}

\* The table the recurrence defines: the cells of every offset i in [0, n)
\* and span j in [1, n - i], and nothing else.
RecurrenceTable(rules, w) ==
    UNION {{[i |-> x[1], j |-> x[2], nt |-> r.lhs, num |-> r.num] :
               r \in Recurrence(rules, w, x[1], x[2])} :
           x \in {y \in (0..(Len(w) - 1)) \X (1..Len(w)) : y[2] <= Len(w) - y[1]}}

(***************************************************************************)
(* C15.  After parse(w) with |w| = n the recognition table satisfies the   *)
(* CYK recurrence exactly: (A, r) is in T(i, 1) iff rule r is A -> t with  *)
(* t = w[i]; for j > 1, (A, r) is in T(i, j) iff rule r is a binary rule   *)
(* A -> B C and some split k in [1, j) has B in T(i, k) and C in           *)
(* T(i + k, j - k); no entry exists outside the cells of i in [0, n) and   *)
(* j in [1, n - i]; a cell of span j holds what the complete cells of      *)
(* smaller span give.                                                      *)
(***************************************************************************)
C15_TableIsCykRecurrence ==
    phase = "parsed"
        => recognition_table = RecurrenceTable(parser_grammar.rules, word)

\* A word of three characters was parsed and the cells of span 2 and of
\* span 3 hold entries.
C15_SpanThreeFilled ==
    /\ phase = "parsed"
    /\ Len(word) = 3
    /\ Cell(recognition_table, 0, 3) # {}
    /\ \E i \in 0..1 : Cell(recognition_table, i, 2) # {}
    /\ Cell(recognition_table, 1, 1) # Cell(recognition_table, 0, 1)

=============================================================================
